---- MODULE Spec2Model ----
(***************************************************************************)
(* SPI flash programmer/dumper (probe.c): the interactive dispatcher, the  *)
(* flash command frames, the write gate of the chip and the bulk dump.     *)
(*                                                                         *)
(* Bytes are integers 0..255; characters are their ASCII codes.            *)
(* The program is a single thread; pc is its position, ret the position a  *)
(* called helper (usb_serial_readhex, spi_status) returns to.              *)
(* Every action performs at most one operation on the chip's lines         *)
(* (spi_power, spi_cs, or the spi_send calls of one frame).                *)
(***************************************************************************)
EXTENDS Integers, Sequences, FiniteSets, TLC

VARIABLES
    pc,        \* position of the program
    ret,       \* return position of usb_serial_readhex / spi_status
    addr,      \* uint32_t addr (val inside usb_serial_readhex)
    offset,    \* uint16_t offset of spi_upload
    buf,       \* xmodem_block.data
    data,      \* local byte arrays: b1..b4 of spi_rdid, data[16] of spi_read
    st,        \* value returned by the last spi_status()
    r1,        \* r1 of spi_write_enable
    out,       \* bytes written to the serial port since the last command byte was
               \* read (since start-up, before the first): the answer of the
               \* command, then the prompt of the next pass
    rx,        \* bytes the host has sent for the current argument, not yet read
    rx0,       \* the argument bytes as the host sent them
    consumed,  \* input bytes read since (and including) the command byte
    ncmd,      \* command bytes dispatched so far
    pay,       \* payload the host streams during the current upload
    cmd,       \* the command byte read last
    flash0,    \* contents of the chip when the command byte was read
    relock,    \* 0: no program or erase has completed since the last 'w' was read;
               \* 1: one completed during the current command;
               \* 2: one completed during an earlier command, and no 'w' was read since
    stray,     \* bytes of an upload's payload the host has sent that nothing has read
    wgate,     \* 1: the gate was Enabled when a 'w' returned, and only 'i' and 'r'
               \* were read between that 'w' and the current command
    power,     \* PORTB7, the chip's power enable (SPI_POW)
    cs,        \* 1 while chip select is asserted (PORTB0 low)
    frame,     \* bytes sent on MOSI since chip select was asserted
    sent,      \* <<opcode, gate of the chip>> of every frame of the current command
    cserr,     \* chip select was asserted while asserted, or bytes sent while released
    lastop,    \* opcode of the last frame of the current command other than a
               \* status read, 0 if none
    wel,       \* chip: write enable latch
    wip,       \* chip: write in progress
    flash,     \* chip: contents, as the changes made to the initial image
    xm,        \* transfer session: "closed" or "open"
    xrc,       \* value returned by the last xmodem_init / xmodem_send
    blk,       \* payload of the last block xmodem_send took
    nblocks    \* blocks xmodem_send took during the current bulk dump

vars == <<pc, ret, addr, offset, buf, data, st, r1, out, rx, rx0, consumed, ncmd,
          pay, cmd, flash0, relock, stray, wgate, power, cs, frame, sent, cserr, lastop,
          wel, wip, flash, xm, xrc, blk, nblocks>>

prog  == <<pc, ret, addr, offset, buf, data, st, r1>>
host  == <<rx, rx0, consumed, ncmd, pay, cmd, flash0, relock, stray, wgate>>
lines == <<power, cs, frame, sent, cserr, lastop>>
chip  == <<wel, wip, flash>>
xfer  == <<xm, xrc, blk, nblocks>>

(***************************************************************************)
(* Bounds of the model.                                                    *)
(***************************************************************************)
\* commands the host sends in one session
MaxCmds == 4
\* longest argument string enumerated for the hex parser on its own
MaxHexLen == 4
\* blocks after which the host cancels a bulk dump in the interactive session
MaxDumpBlocks == 2
\* payload bytes a streaming host has sent by the time it sees an upload refused
MaxStray == 3

(***************************************************************************)
(* Program constants.                                                      *)
(***************************************************************************)
SPI_WIP == 1
SPI_WEL == 2
\* sizeof(xmodem_block.data)
chunk_size == 128
\* total size of one upload
upload_size == 4096
\* 8L << 20
end_addr == 8388608
\* DDRB after main's pin set-up: SS, SCLK, MOSI outputs, MISO input
DDRB == 7
XMODEM_NAK == 21

(***************************************************************************)
(* uint32_t values are kept as two 16-bit halves, [hi, lo].                *)
(***************************************************************************)
u32(h, l) == [hi |-> h, lo |-> l]

\* v + n on a uint32_t, for n < 65536
u32_add(v, n) ==
    u32((v.hi + ((v.lo + n) \div 65536)) % 65536, (v.lo + n) % 65536)

\* v >= n for a constant n < 2^31
u32_ge(v, n) ==
    \/ v.hi > n \div 65536
    \/ v.hi = n \div 65536 /\ v.lo >= n % 65536

\* bits 0..23 of v
Low24(v) == (v.hi % 256) * 65536 + v.lo

\* bit n (mask m = 2^n) of x
HasBit(x, m) == (x \div m) % 2 = 1

Fill(n, b) == [i \in 1..n |-> b]

(***************************************************************************)
(* hexdigit: low nibble of x as an upper-case ASCII hex digit.             *)
(***************************************************************************)
hexdigit(x) ==
    LET n == x % 16
    IN  IF n < 10 THEN n + 48 ELSE n + 65 - 10

\* the two digits of a byte, as the code writes them: hexdigit(b >> 4), hexdigit(b)
hexbyte(b) == <<hexdigit(b \div 16), hexdigit(b)>>

(***************************************************************************)
(* The flash chip and its wiring.                                          *)
(***************************************************************************)
\* contents of the chip before the session
Factory(a) == (a + a \div 256 + a \div 65536) % 256

SectorOf(a) == a \div 4096

FlashRead(fl, a) ==
    IF a \in DOMAIN fl.pg THEN fl.pg[a]
    ELSE IF SectorOf(a) \in fl.er THEN 255
    ELSE Factory(a)

FlashErase(fl, a) ==
    [er |-> fl.er \cup {SectorOf(a)},
     pg |-> [x \in {y \in DOMAIN fl.pg : SectorOf(y) # SectorOf(a)} |-> fl.pg[x]]]

\* a page program: the bytes d are stored from address a on
FlashProgram(fl, a, d) ==
    LET cells == {(a + i - 1) % 16777216 : i \in 1..Len(d)}
        idx(x) == ((x + 16777216 - a) % 16777216) + 1
    IN  [er |-> fl.er,
         pg |-> [x \in DOMAIN fl.pg \cup cells |->
                    IF x \in cells THEN d[idx(x)] ELSE fl.pg[x]]]

\* the 24-bit address of a frame: the three bytes after the opcode, MSB first
FrameAddr(f) == f[2] * 65536 + f[3] * 256 + f[4]

\* the write gate of the chip
Gate ==
    IF power = 1 /\ wip = 1 THEN "Busy"
    ELSE IF power = 1 /\ wel = 1 THEN "Enabled"
    ELSE "Locked"

StatusByte == wip * SPI_WIP + wel * SPI_WEL

\* what an input pin without pull-up reads while nothing drives MISO
FloatingBytes == {0, 1, 2, 3}

\* JEDEC id of the chip
ChipId == <<239, 64, 23>>

\* the bytes the chip clocks out in answer to the bytes m of one frame
ChipAnswer(m) ==
    LET op == m[1]
    IN  [i \in 1..Len(m) |->
            IF op = 5 /\ i >= 2 THEN StatusByte
            ELSE IF op = 3 /\ i >= 5 /\ Len(m) >= 4
                 THEN FlashRead(flash, (FrameAddr(m) + i - 5) % 16777216)
            ELSE IF op = 159 /\ i >= 2
                 THEN ChipId[((i - 2) % 3) + 1]
            ELSE 255]

\* the possible answers: the chip's when powered, whatever MISO floats at otherwise
MisoOf(m) ==
    IF power = 1 THEN {ChipAnswer(m)}
    ELSE {Fill(Len(m), b) : b \in FloatingBytes}

\* the chip acts on a write-type frame when chip select is released
ChipDeselect ==
    IF power = 0 \/ frame = <<>> \/ wip = 1
    THEN UNCHANGED chip
    ELSE IF frame[1] = 6
    THEN wel' = 1 /\ UNCHANGED <<wip, flash>>
    ELSE IF frame[1] = 32 /\ Len(frame) = 4 /\ wel = 1
    THEN /\ wip' = 1
         /\ flash' = FlashErase(flash, FrameAddr(frame))
         /\ UNCHANGED wel
    ELSE IF frame[1] = 2 /\ Len(frame) > 4 /\ Len(frame) <= 260 /\ wel = 1
    THEN /\ wip' = 1
         /\ flash' = FlashProgram(flash, FrameAddr(frame), SubSeq(frame, 5, Len(frame)))
         /\ UNCHANGED wel
    ELSE UNCHANGED chip

\* the program or erase in progress completes: the chip clears WIP and WEL
ChipComplete ==
    /\ power = 1
    /\ wip = 1
    /\ wip' = 0
    /\ wel' = 0
    /\ relock' = 1
    /\ UNCHANGED <<flash, prog, out, rx, rx0, consumed, ncmd, pay, cmd, flash0, stray,
                   wgate, lines, xfer>>

(***************************************************************************)
(* SPI transport.                                                          *)
(***************************************************************************)
\* spi_power(i): the latch is lost whenever the chip is or was without power
spi_power(i) ==
    /\ power' = i
    /\ wel' = IF i = 1 /\ power = 1 THEN wel ELSE 0
    /\ wip' = IF i = 1 /\ power = 1 THEN wip ELSE 0
    /\ UNCHANGED <<cs, frame, sent, cserr, lastop, flash>>

\* spi_cs(i): i = 1 asserts chip select and opens a frame, i = 0 releases it
spi_cs(i) ==
    /\ cs' = i
    /\ frame' = <<>>
    /\ cserr' = (cserr \/ (i = 1 /\ cs = 1))
    /\ IF i = 1 THEN UNCHANGED chip ELSE ChipDeselect
    /\ UNCHANGED <<power, sent, lastop>>

\* the spi_send calls of one frame: bytes m out, the answer in
spi_send(m, answer) ==
    /\ answer \in MisoOf(m)
    /\ frame' = (IF cs = 1 THEN frame \o m ELSE frame)
    /\ sent' = sent \cup {<<m[1], Gate>>}
    /\ lastop' = (IF m[1] = 5 THEN lastop ELSE m[1])
    /\ cserr' = (cserr \/ cs = 0)
    /\ UNCHANGED <<power, cs, chip>>

(***************************************************************************)
(* The serial input.                                                       *)
(***************************************************************************)
\* the payloads the host may stream: byte i of payload p; 'w' is 119
PayloadSeeds == {0, 119}

Payload(p, i) == (p + i + i \div 128) % 256

\* the argument strings the host sends: "0\r", "1F0,", "1000080 "
AddrInputs == {<<48, 13>>, <<49, 70, 48, 44>>, <<49, 48, 48, 48, 48, 56, 48, 32>>}

\* a host either waits for the 'G' of an upload before it sends the payload, or
\* streams it and stops at "wp!", MaxStray bytes of it sent by then
StrayCounts == {0, MaxStray}

\* the next byte of a payload that was sent and not read
StrayByte == Payload(pay, MaxStray - stray)

(***************************************************************************)
(* usb_serial_readhex.                                                     *)
(***************************************************************************)
\* hexval with the lower-case digits taken as c - 'a'
hexval_lower_off(c) ==
    IF 48 <= c /\ c <= 57 THEN c - 48
    ELSE IF 65 <= c /\ c <= 70 THEN c - 65 + 10
    ELSE IF 97 <= c /\ c <= 102 THEN c - 97
    ELSE -1

\* value of a hex digit, -1 for any other byte
hexval(c) ==
    IF 48 <= c /\ c <= 57 THEN c - 48
    ELSE IF 65 <= c /\ c <= 70 THEN c - 65 + 10
    ELSE IF 97 <= c /\ c <= 102 THEN c - 97 + 10
    ELSE -1

\* val = (val << 4) | nibble on a uint32_t
shift_in(val, nib) ==
    u32((val.hi * 16 + val.lo \div 4096) % 65536, ((val.lo * 16) % 65536) + nib)

\* one pass of the loop: read a byte, shift it in or return
usb_serial_readhex ==
    /\ pc = "readhex"
    /\ rx # <<>> \/ stray > 0
    /\ LET c == IF stray > 0 THEN StrayByte ELSE Head(rx)
       IN  /\ IF stray > 0
              THEN /\ stray' = stray - 1
                   /\ \E s \in (IF stray = 1 /\ hexval(c) >= 0 THEN AddrInputs ELSE {<<>>}) :
                         /\ rx' = s
                         /\ rx0' = Append(rx0, c) \o s
              ELSE /\ rx' = Tail(rx)
                   /\ UNCHANGED <<stray, rx0>>
           /\ consumed' = consumed + 1
           /\ IF hexval(c) >= 0
              THEN /\ addr' = shift_in(addr, hexval(c))
                   /\ UNCHANGED pc
              ELSE /\ pc' = ret
                   /\ UNCHANGED addr
    /\ UNCHANGED <<ret, offset, buf, data, st, r1, out, ncmd, pay, cmd, flash0,
                   relock, wgate, lines, chip, xfer>>

(***************************************************************************)
(* spi_status: one read-status frame.                                      *)
(***************************************************************************)
spi_status_cs ==
    /\ pc = "status"
    /\ spi_cs(1)
    /\ pc' = "status_send"
    /\ UNCHANGED <<ret, addr, offset, buf, data, st, r1, out, host, xfer>>

spi_status_send ==
    /\ pc = "status_send"
    /\ \E a \in MisoOf(<<5, 0>>) :
          /\ spi_send(<<5, 0>>, a)
          /\ st' = a[2]
    /\ pc' = "status_end"
    /\ UNCHANGED <<ret, addr, offset, buf, data, r1, out, host, xfer>>

\* spi_status returning with chip select still asserted
spi_status_ret_selected ==
    /\ pc = "status_end"
    /\ pc' = ret
    /\ UNCHANGED <<ret, addr, offset, buf, data, st, r1, out, host, lines, chip, xfer>>

spi_status_ret ==
    /\ pc = "status_end"
    /\ spi_cs(0)
    /\ pc' = ret
    /\ UNCHANGED <<ret, addr, offset, buf, data, st, r1, out, host, xfer>>

spi_status == spi_status_cs \/ spi_status_send \/ spi_status_ret

(***************************************************************************)
(* spi_write_enable ('w').                                                 *)
(***************************************************************************)
spi_write_enable_power ==
    /\ pc = "w_power"
    /\ spi_power(1)
    /\ pc' = "status"
    /\ ret' = "w_cs"
    /\ UNCHANGED <<addr, offset, buf, data, st, r1, out, host, xfer>>

spi_write_enable_cs ==
    /\ pc = "w_cs"
    /\ r1' = st
    /\ spi_cs(1)
    /\ pc' = "w_send"
    /\ UNCHANGED <<ret, addr, offset, buf, data, st, out, host, xfer>>

\* the frame of 'w' carrying write-disable (0x04) instead of write-enable
spi_write_enable_send_wrdi ==
    /\ pc = "w_send"
    /\ \E a \in MisoOf(<<4>>) : spi_send(<<4>>, a)
    /\ pc' = "w_end"
    /\ UNCHANGED <<ret, addr, offset, buf, data, st, r1, out, host, xfer>>

spi_write_enable_send ==
    /\ pc = "w_send"
    /\ \E a \in MisoOf(<<6>>) : spi_send(<<6>>, a)
    /\ pc' = "w_end"
    /\ UNCHANGED <<ret, addr, offset, buf, data, st, r1, out, host, xfer>>

spi_write_enable_end ==
    /\ pc = "w_end"
    /\ spi_cs(0)
    /\ pc' = "status"
    /\ ret' = "w_report"
    /\ UNCHANGED <<addr, offset, buf, data, st, r1, out, host, xfer>>

\* the report of 'w' without the test of WEL: never a '!'
spi_write_enable_report_no_mark ==
    /\ pc = "w_report"
    /\ out' = out \o hexbyte(r1) \o <<32>> \o hexbyte(st) \o <<13, 10>>
    /\ pc' = "main"
    /\ UNCHANGED <<ret, addr, offset, buf, data, st, r1, host, lines, chip, xfer>>

spi_write_enable_report ==
    /\ pc = "w_report"
    /\ out' = out \o hexbyte(r1) \o <<32>> \o hexbyte(st)
                  \o (IF ~HasBit(st, SPI_WEL) THEN <<33>> ELSE <<>>)
                  \o <<13, 10>>
    /\ pc' = "main"
    /\ UNCHANGED <<ret, addr, offset, buf, data, st, r1, host, lines, chip, xfer>>

spi_write_enable ==
    \/ spi_write_enable_power
    \/ spi_write_enable_cs
    \/ spi_write_enable_send
    \/ spi_write_enable_end
    \/ spi_write_enable_report

(***************************************************************************)
(* spi_erase_sector ('e').                                                 *)
(***************************************************************************)
\* the address bytes sent least significant first
addr_bytes_lsb_first(a) ==
    <<Low24(a) % 256, (Low24(a) \div 256) % 256, (Low24(a) \div 65536) % 256>>

\* the three address bytes of a frame: addr >> 16, addr >> 8, addr as uint8_t
addr_bytes(a) ==
    <<(Low24(a) \div 65536) % 256, (Low24(a) \div 256) % 256, Low24(a) % 256>>

\* "wp!\r\n"
WP_MSG == <<119, 112, 33, 13, 10>>

spi_erase_sector_start ==
    /\ pc = "e_start"
    /\ pc' = "status"
    /\ ret' = "e_check"
    /\ UNCHANGED <<addr, offset, buf, data, st, r1, out, host, lines, chip, xfer>>

\* the check of 'e' reporting "wp!" without returning
spi_erase_sector_check_no_return ==
    /\ pc = "e_check"
    /\ out' = (IF ~HasBit(st, SPI_WEL) THEN out \o WP_MSG ELSE out)
    /\ spi_cs(1)
    /\ pc' = "e_send"
    /\ UNCHANGED <<ret, addr, offset, buf, data, st, r1, host, xfer>>

spi_erase_sector_check ==
    /\ pc = "e_check"
    /\ IF ~HasBit(st, SPI_WEL)
       THEN /\ out' = out \o WP_MSG
            /\ pc' = "main"
            /\ UNCHANGED <<lines, chip>>
       ELSE /\ spi_cs(1)
            /\ pc' = "e_send"
            /\ UNCHANGED out
    /\ UNCHANGED <<ret, addr, offset, buf, data, st, r1, host, xfer>>

spi_erase_sector_send ==
    /\ pc = "e_send"
    /\ \E a \in MisoOf(<<32>> \o addr_bytes(addr)) :
          spi_send(<<32>> \o addr_bytes(addr), a)
    /\ pc' = "e_end"
    /\ UNCHANGED <<ret, addr, offset, buf, data, st, r1, out, host, xfer>>

spi_erase_sector_end ==
    /\ pc = "e_end"
    /\ spi_cs(0)
    /\ pc' = "status"
    /\ ret' = "e_wait"
    /\ UNCHANGED <<addr, offset, buf, data, st, r1, out, host, xfer>>

\* 'e' reading the status once after the erase frame and reporting, busy or not
spi_erase_sector_wait_no_poll ==
    /\ pc = "e_wait"
    /\ out' = out \o <<69, hexdigit(Low24(addr) \div 1048576),
                        hexdigit(Low24(addr) \div 65536),
                        hexdigit(Low24(addr) \div 4096),
                        hexdigit(Low24(addr) \div 256),
                        hexdigit(Low24(addr) \div 16),
                        hexdigit(Low24(addr)), 13, 10>>
    /\ pc' = "main"
    /\ UNCHANGED <<ret, addr, offset, buf, data, st, r1, host, lines, chip, xfer>>

spi_erase_sector_wait ==
    /\ pc = "e_wait"
    /\ IF HasBit(st, SPI_WIP)
       THEN /\ pc' = "status"
            /\ UNCHANGED out
       ELSE /\ out' = out \o <<69, hexdigit(Low24(addr) \div 1048576),
                               hexdigit(Low24(addr) \div 65536),
                               hexdigit(Low24(addr) \div 4096),
                               hexdigit(Low24(addr) \div 256),
                               hexdigit(Low24(addr) \div 16),
                               hexdigit(Low24(addr)), 13, 10>>
            /\ pc' = "main"
    /\ UNCHANGED <<ret, addr, offset, buf, data, st, r1, host, lines, chip, xfer>>

spi_erase_sector ==
    \/ spi_erase_sector_start
    \/ spi_erase_sector_check
    \/ spi_erase_sector_send
    \/ spi_erase_sector_end
    \/ spi_erase_sector_wait

(***************************************************************************)
(* spi_rdid ('i').                                                         *)
(***************************************************************************)
spi_rdid_power ==
    /\ pc = "i_power"
    /\ spi_power(1)
    /\ pc' = "i_cs"
    /\ UNCHANGED <<ret, addr, offset, buf, data, st, r1, out, host, xfer>>

spi_rdid_cs ==
    /\ pc = "i_cs"
    /\ spi_cs(1)
    /\ pc' = "i_send"
    /\ UNCHANGED <<ret, addr, offset, buf, data, st, r1, out, host, xfer>>

spi_rdid_send ==
    /\ pc = "i_send"
    /\ \E a \in MisoOf(<<159, 1, 2, 4, 23>>) :
          /\ spi_send(<<159, 1, 2, 4, 23>>, a)
          /\ data' = SubSeq(a, 2, 5)
    /\ pc' = "i_end"
    /\ UNCHANGED <<ret, addr, offset, buf, st, r1, out, host, xfer>>

spi_rdid_end ==
    /\ pc = "i_end"
    /\ spi_cs(0)
    /\ pc' = "i_report"
    /\ UNCHANGED <<ret, addr, offset, buf, data, st, r1, out, host, xfer>>

spi_rdid_report ==
    /\ pc = "i_report"
    /\ spi_power(0)
    /\ out' = out \o hexbyte(data[1]) \o hexbyte(data[2]) \o hexbyte(data[3])
                  \o hexbyte(data[4]) \o <<13, 10>>
    /\ pc' = "main"
    /\ UNCHANGED <<ret, addr, offset, buf, data, st, r1, host, xfer>>

spi_rdid ==
    \/ spi_rdid_power
    \/ spi_rdid_cs
    \/ spi_rdid_send
    \/ spi_rdid_end
    \/ spi_rdid_report

(***************************************************************************)
(* spi_read ('r'): 16 bytes at addr.                                       *)
(***************************************************************************)
RECURSIVE hexdump(_)
\* each byte as two hex digits and a space
hexdump(d) ==
    IF d = <<>> THEN <<>>
    ELSE hexbyte(Head(d)) \o <<32>> \o hexdump(Tail(d))

spi_read_power ==
    /\ pc = "r_power"
    /\ spi_power(1)
    /\ pc' = "r_cs"
    /\ UNCHANGED <<ret, addr, offset, buf, data, st, r1, out, host, xfer>>

spi_read_cs ==
    /\ pc = "r_cs"
    /\ spi_cs(1)
    /\ pc' = "r_send"
    /\ UNCHANGED <<ret, addr, offset, buf, data, st, r1, out, host, xfer>>

spi_read_send ==
    /\ pc = "r_send"
    /\ \E a \in MisoOf(<<3>> \o addr_bytes(addr) \o Fill(16, 0)) :
          /\ spi_send(<<3>> \o addr_bytes(addr) \o Fill(16, 0), a)
          /\ data' = SubSeq(a, 5, 20)
    /\ pc' = "r_end"
    /\ UNCHANGED <<ret, addr, offset, buf, st, r1, out, host, xfer>>

spi_read_end ==
    /\ pc = "r_end"
    /\ spi_cs(0)
    /\ pc' = "r_report"
    /\ UNCHANGED <<ret, addr, offset, buf, data, st, r1, out, host, xfer>>

spi_read_report ==
    /\ pc = "r_report"
    /\ spi_power(0)
    /\ out' = out \o hexdump(data) \o <<13, 10>>
    /\ pc' = "main"
    /\ UNCHANGED <<ret, addr, offset, buf, data, st, r1, host, xfer>>

spi_read ==
    \/ spi_read_power
    \/ spi_read_cs
    \/ spi_read_send
    \/ spi_read_end
    \/ spi_read_report

(***************************************************************************)
(* spi_upload ('u'): upload_size bytes in chunks of chunk_size.            *)
(***************************************************************************)
\* "done!\r\n"
DONE_MSG == <<100, 111, 110, 101, 33, 13, 10>>

spi_upload_start ==
    /\ pc = "u_start"
    /\ pc' = "status"
    /\ ret' = "u_check"
    /\ UNCHANGED <<addr, offset, buf, data, st, r1, out, host, lines, chip, xfer>>

\* the test of the status read at entry; on "wp!" the function returns and
\* reads nothing more: what the host has streamed by then stays in the input
spi_upload_check ==
    /\ pc = "u_check"
    /\ IF ~HasBit(st, SPI_WEL)
       THEN /\ out' = out \o WP_MSG
            /\ pc' = "main"
            /\ IF stray > 0
               THEN UNCHANGED <<stray, pay>>
               ELSE \E n \in StrayCounts :
                       /\ stray' = n
                       /\ pay' \in (IF n = 0 THEN {0} ELSE PayloadSeeds)
            /\ UNCHANGED offset
       ELSE /\ out' = out \o <<71>>
            /\ offset' = 0
            /\ pc' = "u_loop"
            /\ UNCHANGED <<stray, pay>>
    /\ UNCHANGED <<ret, addr, buf, data, st, r1, rx, rx0, consumed, ncmd, cmd, flash0,
                   relock, wgate, lines, chip, xfer>>

\* loop test; read one chunk from the serial port; open the write-enable frame
spi_upload_chunk ==
    /\ pc = "u_loop"
    /\ offset < upload_size
    /\ \E p \in (IF offset = 0 /\ stray = 0 THEN PayloadSeeds ELSE {pay}) :
          /\ pay' = p
          /\ buf' = [i \in 1..chunk_size |->
                        IF i <= stray THEN Payload(pay, MaxStray - stray + i - 1)
                        ELSE Payload(p, offset + i - 1)]
    /\ stray' = (IF stray > chunk_size THEN stray - chunk_size ELSE 0)
    /\ consumed' = consumed + chunk_size
    /\ spi_cs(1)
    /\ pc' = "u_we_send"
    /\ UNCHANGED <<ret, addr, offset, data, st, r1, out, rx, rx0, ncmd, cmd, flash0,
                   relock, wgate, xfer>>

\* the frame before a chunk's page program carrying write-disable (0x04)
spi_upload_we_send_wrdi ==
    /\ pc = "u_we_send"
    /\ \E a \in MisoOf(<<4>>) : spi_send(<<4>>, a)
    /\ pc' = "u_we_end"
    /\ UNCHANGED <<ret, addr, offset, buf, data, st, r1, out, host, xfer>>

spi_upload_we_send ==
    /\ pc = "u_we_send"
    /\ \E a \in MisoOf(<<6>>) : spi_send(<<6>>, a)
    /\ pc' = "u_we_end"
    /\ UNCHANGED <<ret, addr, offset, buf, data, st, r1, out, host, xfer>>

spi_upload_we_end ==
    /\ pc = "u_we_end"
    /\ spi_cs(0)
    /\ pc' = "status"
    /\ ret' = "u_pp_cs"
    /\ UNCHANGED <<addr, offset, buf, data, st, r1, out, host, xfer>>

\* r2 = spi_status() has returned (st); r2 is not looked at
spi_upload_pp_cs ==
    /\ pc = "u_pp_cs"
    /\ spi_cs(1)
    /\ pc' = "u_pp_send"
    /\ UNCHANGED <<ret, addr, offset, buf, data, st, r1, out, host, xfer>>

spi_upload_pp_send ==
    /\ pc = "u_pp_send"
    /\ \E a \in MisoOf(<<2>> \o addr_bytes(addr) \o buf) :
          spi_send(<<2>> \o addr_bytes(addr) \o buf, a)
    /\ pc' = "u_pp_end"
    /\ UNCHANGED <<ret, addr, offset, buf, data, st, r1, out, host, xfer>>

spi_upload_pp_end ==
    /\ pc = "u_pp_end"
    /\ spi_cs(0)
    /\ pc' = "status"
    /\ ret' = "u_wait"
    /\ UNCHANGED <<addr, offset, buf, data, st, r1, out, host, xfer>>

\* the poll of a chunk writing '.' at every pass, busy or not
spi_upload_wait_dot_per_poll ==
    /\ pc = "u_wait"
    /\ out' = out \o <<46>>
    /\ IF HasBit(st, SPI_WIP)
       THEN /\ pc' = "status"
            /\ UNCHANGED <<addr, offset>>
       ELSE /\ addr' = u32_add(addr, chunk_size)
            /\ offset' = offset + chunk_size
            /\ pc' = "u_loop"
    /\ UNCHANGED <<ret, buf, data, st, r1, host, lines, chip, xfer>>

spi_upload_wait ==
    /\ pc = "u_wait"
    /\ IF HasBit(st, SPI_WIP)
       THEN /\ pc' = "status"
            /\ UNCHANGED <<out, addr, offset>>
       ELSE /\ out' = out \o <<46>>
            /\ addr' = u32_add(addr, chunk_size)
            /\ offset' = offset + chunk_size
            /\ pc' = "u_loop"
    /\ UNCHANGED <<ret, buf, data, st, r1, host, lines, chip, xfer>>

spi_upload_done ==
    /\ pc = "u_loop"
    /\ ~(offset < upload_size)
    /\ out' = out \o DONE_MSG
    /\ pc' = "main"
    /\ UNCHANGED <<ret, addr, offset, buf, data, st, r1, host, lines, chip, xfer>>

spi_upload ==
    \/ spi_upload_start
    \/ spi_upload_check
    \/ spi_upload_chunk
    \/ spi_upload_we_send
    \/ spi_upload_we_end
    \/ spi_upload_pp_cs
    \/ spi_upload_pp_send
    \/ spi_upload_pp_end
    \/ spi_upload_wait
    \/ spi_upload_done

(***************************************************************************)
(* prom_send: the bulk dump over the transfer protocol.                    *)
(***************************************************************************)
\* "xmodem done\r\n"
XMODEM_DONE_MSG == <<120, 109, 111, 100, 101, 109, 32, 100, 111, 110, 101, 13, 10>>

\* xmodem_init, then power on
prom_send_init ==
    /\ pc = "x_init"
    /\ \/ /\ xrc' = -1
          /\ pc' = "x_done"
          /\ UNCHANGED <<addr, lines, chip, xm, blk, nblocks>>
       \/ /\ xrc' = 0
          /\ xm' = "open"
          /\ nblocks' = 0
          /\ UNCHANGED blk
          /\ spi_power(1)
          /\ addr' = u32(0, 0)
          /\ pc' = "x_cs"
    /\ UNCHANGED <<ret, offset, buf, data, st, r1, out, host>>

prom_send_cs ==
    /\ pc = "x_cs"
    /\ spi_cs(1)
    /\ pc' = "x_send"
    /\ UNCHANGED <<ret, addr, offset, buf, data, st, r1, out, host, xfer>>

prom_send_read ==
    /\ pc = "x_send"
    /\ \E a \in MisoOf(<<3>> \o addr_bytes(addr) \o Fill(chunk_size, 0)) :
          /\ spi_send(<<3>> \o addr_bytes(addr) \o Fill(chunk_size, 0), a)
          /\ buf' = SubSeq(a, 5, 4 + chunk_size)
    /\ pc' = "x_end"
    /\ UNCHANGED <<ret, addr, offset, data, st, r1, out, host, xfer>>

\* prom_send going on with the next chunk after xmodem_send has failed
prom_send_block_ignore_failure(limit) ==
    /\ pc = "x_end"
    /\ spi_cs(0)
    /\ \/ /\ xrc' = -1
          /\ pc' = "x_cs"
          /\ UNCHANGED <<addr, blk, nblocks>>
       \/ /\ nblocks < limit
          /\ xrc' = 0
          /\ blk' = buf
          /\ nblocks' = nblocks + 1
          /\ addr' = u32_add(addr, chunk_size)
          /\ pc' = IF u32_ge(u32_add(addr, chunk_size), end_addr)
                   THEN "x_fini" ELSE "x_cs"
    /\ UNCHANGED <<ret, offset, buf, data, st, r1, out, host, xm>>

\* prom_send going round the loop without advancing addr
prom_send_block_no_advance(limit) ==
    /\ pc = "x_end"
    /\ spi_cs(0)
    /\ \/ /\ xrc' = -1
          /\ pc' = "x_done"
          /\ UNCHANGED <<addr, blk, nblocks>>
       \/ /\ nblocks < limit
          /\ xrc' = 0
          /\ blk' = buf
          /\ nblocks' = nblocks + 1
          /\ addr' = addr
          /\ pc' = IF u32_ge(u32_add(addr, chunk_size), end_addr)
                   THEN "x_fini" ELSE "x_cs"
    /\ UNCHANGED <<ret, offset, buf, data, st, r1, out, host, xm>>

\* release chip select; xmodem_send fails (the host may cancel at any block and
\* does so after at most limit blocks) or takes the block
prom_send_block(limit) ==
    /\ pc = "x_end"
    /\ spi_cs(0)
    /\ \/ /\ xrc' = -1
          /\ pc' = "x_done"
          /\ UNCHANGED <<addr, blk, nblocks>>
       \/ /\ nblocks < limit
          /\ xrc' = 0
          /\ blk' = buf
          /\ nblocks' = nblocks + 1
          /\ addr' = u32_add(addr, chunk_size)
          /\ pc' = IF u32_ge(u32_add(addr, chunk_size), end_addr)
                   THEN "x_fini" ELSE "x_cs"
    /\ UNCHANGED <<ret, offset, buf, data, st, r1, out, host, xm>>

\* power off, xmodem_fini
prom_send_fini ==
    /\ pc = "x_fini"
    /\ spi_power(0)
    /\ xm' = "closed"
    /\ pc' = "x_done"
    /\ UNCHANGED <<ret, addr, offset, buf, data, st, r1, out, host, xrc, blk, nblocks>>

\* back in main: send_str("xmodem done\r\n")
prom_send_return ==
    /\ pc = "x_done"
    /\ out' = out \o XMODEM_DONE_MSG
    /\ pc' = "main"
    /\ UNCHANGED <<ret, addr, offset, buf, data, st, r1, host, lines, chip, xfer>>

(***************************************************************************)
(* main: the dispatcher loop.                                              *)
(***************************************************************************)
\* bytes the host sends at the command position: i r w e u x NAK z CR
Commands == {105, 114, 119, 101, 117, 120, XMODEM_NAK, 122, 13}

\* a command with a hex argument: the host sends the argument after it, unless
\* bytes sent earlier are still unread
main_arg(entry) ==
    /\ \E s \in (IF stray > 1 THEN {<<>>} ELSE AddrInputs) : rx' = s /\ rx0' = s
    /\ pc' = "readhex"
    /\ ret' = entry

\* a command without argument
main_noarg(entry) ==
    /\ rx' = <<>>
    /\ rx0' = <<>>
    /\ pc' = entry
    /\ ret' = "main"

\* usb_serial_putchar('?') twice for a byte that is no command
main_default_twice ==
    /\ main_noarg("main")
    /\ out' = <<63, 63>>

\* default: usb_serial_putchar('?')
main_default ==
    /\ main_noarg("main")
    /\ out' = <<63>>

\* top of the loop: usb_serial_putchar('>'), then wait for the command byte
main_prompt ==
    /\ pc = "main"
    /\ out' = Append(out, 62)
    /\ pc' = "main_read"
    /\ UNCHANGED <<ret, addr, offset, buf, data, st, r1, host, lines, chip, xfer>>

\* the rest of a pass of the loop: read a command byte and switch on it; the
\* locals of the function called are new
main_loop(cmds, limit) ==
    /\ pc = "main_read"
    /\ ncmd < limit
    /\ ncmd' = ncmd + 1
    /\ consumed' = 1
    /\ flash0' = flash
    /\ pay' = (IF stray > 1 THEN pay ELSE 0)
    /\ stray' = (IF stray > 0 THEN stray - 1 ELSE 0)
    /\ wgate' = (IF cmd = 119 /\ Gate = "Enabled" THEN 1
               ELSE IF cmd \in {105, 114} THEN wgate
               ELSE 0)
    /\ lastop' = 0
    /\ addr' = u32(0, 0)
    /\ offset' = 0
    /\ data' = <<>>
    /\ st' = 0
    /\ r1' = 0
    /\ xrc' = 0
    /\ blk' = <<>>
    /\ nblocks' = 0
    /\ sent' = {}
    /\ \E c \in (IF stray > 0 THEN {StrayByte} ELSE cmds) :
          /\ cmd' = c
          /\ relock' = (IF c = 119 THEN 0 ELSE IF relock >= 1 THEN 2 ELSE 0)
          /\ CASE c = 105 -> main_noarg("i_power") /\ out' = <<>>
               [] c = 114 -> main_arg("r_power") /\ out' = <<>>
               [] c = 119 -> main_noarg("w_power") /\ out' = <<>>
               [] c = 101 -> main_arg("e_start") /\ out' = <<>>
               [] c = 117 -> main_arg("u_start") /\ out' = <<>>
               [] c = XMODEM_NAK -> main_noarg("x_init") /\ out' = <<>>
               [] c = 120 -> main_noarg("main") /\ out' = hexbyte(DDRB)
               [] OTHER   -> main_default
    /\ UNCHANGED <<buf, power, cs, frame, cserr, chip, xm>>

\* one pass of the loop
main == main_prompt \/ main_loop(Commands, MaxCmds)

(***************************************************************************)
(* The interactive session.                                                *)
(***************************************************************************)
\* "spi\r\n", the banner main writes before the loop
BANNER_MSG == <<115, 112, 105, 13, 10>>

\* main has set up the pins, switched power off, released chip select and
\* written the banner; it is at the top of the loop
Init ==
    /\ pc = "main"
    /\ ret = "main"
    /\ addr = u32(0, 0)
    /\ offset = 0
    /\ buf = Fill(chunk_size, 0)
    /\ data = <<>>
    /\ st = 0
    /\ r1 = 0
    /\ out = BANNER_MSG
    /\ rx = <<>>
    /\ rx0 = <<>>
    /\ consumed = 0
    /\ ncmd = 0
    /\ pay = 0
    /\ cmd = 0
    /\ flash0 = [er |-> {}, pg |-> [x \in {} |-> 0]]
    /\ relock = 0
    /\ stray = 0
    /\ wgate = 0
    /\ power = 0
    /\ cs = 0
    /\ frame = <<>>
    /\ sent = {}
    /\ cserr = FALSE
    /\ lastop = 0
    /\ wel = 0
    /\ wip = 0
    /\ flash = [er |-> {}, pg |-> [x \in {} |-> 0]]
    /\ xm = "closed"
    /\ xrc = 0
    /\ blk = <<>>
    /\ nblocks = 0

\* the bulk dump in a session: the host cancels after at most MaxDumpBlocks blocks
prom_send_cancelled ==
    \/ prom_send_init
    \/ prom_send_cs
    \/ prom_send_read
    \/ prom_send_block(MaxDumpBlocks)
    \/ prom_send_return

Next ==
    \/ main
    \/ usb_serial_readhex
    \/ spi_status
    \/ spi_rdid
    \/ spi_read
    \/ spi_write_enable
    \/ spi_erase_sector
    \/ spi_upload
    \/ prom_send_cancelled
    \/ ChipComplete

Spec == Init /\ [][Next]_vars

\* the steps of the program; the host has sent every byte a step waits for
main_steps ==
    \/ main
    \/ usb_serial_readhex
    \/ spi_status
    \/ spi_rdid
    \/ spi_read
    \/ spi_write_enable
    \/ spi_erase_sector
    \/ spi_upload
    \/ prom_send_cancelled

\* the session when the program keeps running and the chip completes every
\* program and erase it has started
SpecLive == Init /\ [][Next]_vars /\ WF_vars(main_steps) /\ WF_vars(ChipComplete)

(***************************************************************************)
(* The hex parser on its own: usb_serial_readhex run on every short input  *)
(* over HexAlphabet and on a few longer ones.                              *)
(***************************************************************************)
\* '1' '2' 'A' 'B' 'f' ',' 'z' CR
HexAlphabet == {49, 50, 65, 66, 102, 44, 122, 13}

\* "1A2B,", "FFFFFFFF1,", "123456789aBc\r"
LongHexInputs ==
    {<<49, 65, 50, 66, 44>>,
     <<70, 70, 70, 70, 70, 70, 70, 70, 49, 44>>,
     <<49, 50, 51, 52, 53, 54, 55, 56, 57, 97, 66, 99, 13>>}

HexInputs ==
    UNION {[1..n -> HexAlphabet] : n \in 1..MaxHexLen} \cup LongHexInputs

InitHex ==
    /\ pc = "readhex"
    /\ ret = "hexdone"
    /\ rx \in HexInputs
    /\ rx0 = rx
    /\ addr = u32(0, 0)
    /\ offset = 0
    /\ buf = Fill(chunk_size, 0)
    /\ data = <<>>
    /\ st = 0
    /\ r1 = 0
    /\ out = <<>>
    /\ consumed = 0
    /\ ncmd = 0
    /\ pay = 0
    /\ cmd = 0
    /\ flash0 = [er |-> {}, pg |-> [x \in {} |-> 0]]
    /\ relock = 0
    /\ stray = 0
    /\ wgate = 0
    /\ power = 0
    /\ cs = 0
    /\ frame = <<>>
    /\ sent = {}
    /\ cserr = FALSE
    /\ lastop = 0
    /\ wel = 0
    /\ wip = 0
    /\ flash = [er |-> {}, pg |-> [x \in {} |-> 0]]
    /\ xm = "closed"
    /\ xrc = 0
    /\ blk = <<>>
    /\ nblocks = 0

NextHex == usb_serial_readhex

SpecHex == InitHex /\ [][NextHex]_vars

(***************************************************************************)
(* The write-enable command on its own, on any device: a session of one    *)
(* 'w' in which each status read returns whatever byte is clocked in (a    *)
(* chip with protection bits set, a chip that does not take the            *)
(* write-enable, a clip that is not attached).                             *)
(***************************************************************************)
\* uint8_t r1 = spi_send(0x00): any byte
spi_status_send_any ==
    /\ pc = "status_send"
    /\ st' \in 0..255
    /\ frame' = (IF cs = 1 THEN frame \o <<5, 0>> ELSE frame)
    /\ sent' = sent \cup {<<5, Gate>>}
    /\ cserr' = (cserr \/ cs = 0)
    /\ pc' = "status_end"
    /\ UNCHANGED <<power, cs, lastop, chip>>
    /\ UNCHANGED <<ret, addr, offset, buf, data, r1, out, host, xfer>>

main_w == main_prompt \/ main_loop({119}, 1)

NextW ==
    \/ main_w
    \/ spi_status_cs
    \/ spi_status_send_any
    \/ spi_status_ret
    \/ spi_write_enable

SpecW == Init /\ [][NextW]_vars

(***************************************************************************)
(* The bulk dump on its own: a session of one command, the trigger byte,   *)
(* in which the host may take every block.                                 *)
(***************************************************************************)
main_dump == main_prompt \/ main_loop({XMODEM_NAK}, 1)

NextDump ==
    \/ main_dump
    \/ prom_send_init
    \/ prom_send_cs
    \/ prom_send_read
    \/ prom_send_block(end_addr \div chunk_size)
    \/ prom_send_fini
    \/ prom_send_return

SpecDump == Init /\ [][NextDump]_vars

(***************************************************************************)
(* Properties.                                                             *)
(***************************************************************************)
\* the opcodes of the frames sent during the current command
OpsSent == {x[1] : x \in sent}

\* a frame is open and its first byte is op
FrameOpen(op) == cs = 1 /\ frame # <<>> /\ frame[1] = op

\* C1: a page-program (0x02) or sector-erase (0x20) frame is open only while the
\* write gate of the chip is Enabled (WEL = 1, WIP = 0), never while Locked or Busy.
C1_WriteFrameOnlyWhenEnabled ==
    (FrameOpen(2) \/ FrameOpen(32)) => Gate = "Enabled"

\* C2: when 'e' finds WEL clear in the status read at entry, it sends no erase
\* frame (the status read is the only frame of the command), leaves the flash as
\* it was when the command was read, answers "wp!" CRLF and returns to the
\* dispatcher.
C2_EraseRefusedWhenWelClear ==
    [][(pc = "e_check" /\ ~HasBit(st, SPI_WEL))
          => /\ pc' = "main"
             /\ out' = WP_MSG
             /\ OpsSent' = {5}
             /\ cs' = 0
             /\ flash = flash0
             /\ flash' = flash0]_vars

\* an 'e' refused on a powered chip, after earlier commands
C2_Witness ==
    /\ pc = "main"
    /\ cmd = 101
    /\ out = WP_MSG
    /\ power = 1
    /\ ncmd >= 2
    /\ OpsSent = {5}

\* C3: in 'u', a page-program frame is open only if the status read just before
\* it (r2, after the chunk's write-enable frame) showed WEL set.
C3_ChunkGatedOnStatus ==
    (cmd = 117 /\ FrameOpen(2)) => HasBit(st, SPI_WEL)

\* C4: the status read after the write-enable frame of 'w' has WEL set, and the
\* chip is left powered with WEL = 1 when 'w' returns.
C4_WriteEnableSetsWel ==
    /\ pc = "w_report" => (HasBit(st, SPI_WEL) /\ wel = 1 /\ power = 1)
    /\ (pc = "main" /\ cmd = 119) => (wel = 1 /\ power = 1 /\ OpsSent = {5, 6})

\* 'w' after other commands: the status read after the frame shows WEL
C4_Witness ==
    /\ pc = "w_report"
    /\ ncmd >= 3
    /\ HasBit(st, SPI_WEL)
    /\ ~HasBit(r1, SPI_WEL)

\* C5: a completed erase or program leaves the gate Locked when its command
\* returns, and an 'e' read after it with no 'w' read in between opens no erase
\* frame and answers "wp!" CRLF.
C5_RelockedAfterWrite ==
    /\ (relock = 1 /\ pc = "main") => Gate = "Locked"
    /\ (relock = 2 /\ cmd = 101) =>
          /\ ~FrameOpen(32)
          /\ pc = "main" => out = WP_MSG

\* C6: chip select is asserted only while released and bytes are sent only while
\* it is asserted; it is released whenever the program waits for a byte from the
\* host (command, argument or upload chunk) and whenever a handler has returned.
C6_ChipSelectNested ==
    /\ ~cserr
    /\ pc \in {"main", "main_read", "readhex", "u_loop", "x_done"} => cs = 0
    /\ cs = 0 => frame = <<>>

\* a bulk dump aborted after a block, back in the dispatcher
C6_Witness ==
    /\ pc = "main"
    /\ cmd = XMODEM_NAK
    /\ xrc = -1
    /\ nblocks >= 1
    /\ OpsSent = {3}
    /\ cs = 0

\* what a read frame of n bytes at the 24-bit address a answers
ReadBack(a, n) == [i \in 1..n |-> FlashRead(flash, (a + i - 1) % 16777216)]

\* C7: when the poll of a chunk of 'u' has seen the program complete, a read of
\* the chunk's range returns the chunk, provided every program frame of the
\* command was sent with the gate Enabled; when a program frame was sent with
\* the gate not Enabled, the flash is unchanged and the answer of the command is
\* "wp!" CRLF.
C7_ProgramReadBack ==
    /\ (pc = "u_wait" /\ ~HasBit(st, SPI_WIP) /\ \A x \in sent : x[1] = 2 => x[2] = "Enabled")
          => ReadBack(Low24(addr), chunk_size) = buf
    /\ (pc = "main" /\ cmd = 117 /\ \E x \in sent : x[1] = 2 /\ x[2] # "Enabled")
          => (flash = flash0 /\ out = WP_MSG)

\* C9: when xmodem_send fails, the next position is the return to main with
\* chip select released, no block taken; from there the program only writes
\* "xmodem done" and reads the next command: no frame is opened, no block sent.
C9_AbortStopsDump ==
    [][/\ (pc = "x_end" /\ xrc' = -1)
            => (pc' = "x_done" /\ cs' = 0 /\ nblocks' = nblocks /\ blk' = blk)
       /\ (pc = "x_done")
            => /\ pc' = "main"
               /\ out' = out \o XMODEM_DONE_MSG
               /\ UNCHANGED <<cs, frame, sent, nblocks, blk, xrc>>]_vars

\* a dump aborted at its second block, and the next command dispatched
C9_Witness ==
    /\ cmd = 119
    /\ pc = "w_power"
    /\ xm = "open"
    /\ power = 1
    /\ ncmd >= 2

\* C8: the bulk dump reads block after block at 0, 128, 256, ... below 8 MiB,
\* each with one read frame (0x03) at the block's address; every block
\* xmodem_send takes holds what a read frame answers for the block's range; a
\* dump that was not aborted has handed over exactly 65536 blocks and has
\* closed the session.
C8_BulkDump ==
    /\ pc \in {"x_cs", "x_send", "x_end"} =>
          /\ addr = u32((nblocks * 128) \div 65536, (nblocks * 128) % 65536)
          /\ nblocks * 128 < 8388608
    /\ pc = "x_end" =>
          /\ OpsSent = {3}
          /\ buf = ReadBack(nblocks * 128, 128)
    /\ (pc \in {"x_cs", "x_send", "x_end", "x_fini"} /\ nblocks > 0) =>
          blk = ReadBack((nblocks - 1) * 128, 128)
    /\ pc = "x_fini" => nblocks = 65536
    /\ (pc \in {"x_done", "main"} /\ cmd = XMODEM_NAK /\ xrc = 0) =>
          (nblocks = 65536 /\ xm = "closed")

\* a dump that ran to the top address
C8_Witness ==
    /\ pc = "main"
    /\ cmd = XMODEM_NAK
    /\ xrc = 0
    /\ nblocks = 65536
    /\ xm = "closed"
    /\ blk = ReadBack(8388608 - 128, 128)

\* the hex digits, by value
UpperDigits == <<48, 49, 50, 51, 52, 53, 54, 55, 56, 57, 65, 66, 67, 68, 69, 70>>
LowerDigits == <<48, 49, 50, 51, 52, 53, 54, 55, 56, 57, 97, 98, 99, 100, 101, 102>>

IsHexDigit(c) == \E v \in 1..16 : UpperDigits[v] = c \/ LowerDigits[v] = c

DigitOf(c) == (CHOOSE v \in 1..16 : UpperDigits[v] = c \/ LowerDigits[v] = c) - 1

\* length of the leading run of hex digits of s
RunLen(s) ==
    CHOOSE n \in 0..Len(s) :
        /\ \A i \in 1..n : IsHexDigit(s[i])
        /\ n = Len(s) \/ ~IsHexDigit(s[n + 1])

\* digit k from the right (k = 0 is the last) of the first n bytes of s, 0 beyond
DigitFromRight(s, n, k) == IF k < n THEN DigitOf(s[n - k]) ELSE 0

\* the number written by the first n bytes of s, modulo 2^32
RunValue(s, n) ==
    u32(DigitFromRight(s, n, 7) * 4096 + DigitFromRight(s, n, 6) * 256
          + DigitFromRight(s, n, 5) * 16 + DigitFromRight(s, n, 4),
        DigitFromRight(s, n, 3) * 4096 + DigitFromRight(s, n, 2) * 256
          + DigitFromRight(s, n, 1) * 16 + DigitFromRight(s, n, 0))

\* C10: usb_serial_readhex reads the leading run of hex digits and the byte that
\* ends it, no more: while it runs it has read only digits; when it returns, the
\* value is the number the run writes (0 for an empty run), and what is left of
\* the input starts after the terminator. "1A2B," gives 0x1A2B with nothing
\* left; "zz\r" gives 0 with "z\r" left.
C10_HexParser ==
    /\ pc = "readhex" =>
          /\ consumed <= RunLen(rx0)
          /\ rx = SubSeq(rx0, consumed + 1, Len(rx0))
          /\ addr = RunValue(rx0, consumed)
    /\ pc = "hexdone" =>
          /\ consumed = RunLen(rx0) + 1
          /\ rx = SubSeq(rx0, RunLen(rx0) + 2, Len(rx0))
          /\ addr = RunValue(rx0, RunLen(rx0))
    /\ (pc = "hexdone" /\ rx0 = <<49, 65, 50, 66, 44>>) =>
          (addr = u32(0, 6699) /\ rx = <<>>)
    /\ (pc = "hexdone" /\ rx0 = <<122, 122, 13>>) =>
          (addr = u32(0, 0) /\ rx = <<122, 13>> /\ consumed = 1)

\* "1A2B," parsed
C10_Witness ==
    /\ pc = "hexdone"
    /\ rx0 = <<49, 65, 50, 66, 44>>
    /\ addr = u32(0, 6699)
    /\ rx = <<>>

\* the bytes main has a case for: i r w e u x NAK
Recognized == {105, 114, 119, 101, 117, 120, 21}

\* C11: when the byte read at the command position is none of 'i', 'r', 'w',
\* 'e', 'u', 'x', NAK, the program writes '?' once, reads no further byte for
\* it, sends nothing to the chip, leaves power, chip select and the write gate
\* as they were, and is back at the top of the loop, where it writes the prompt
\* and waits for the next command byte.
C11_UnknownByte ==
    [][/\ (ncmd' = ncmd + 1 /\ cmd' \notin Recognized) =>
          /\ out' = <<63>>
          /\ consumed' = 1
          /\ rx' = <<>>
          /\ pc' = "main"
          /\ sent' = {}
          /\ frame' = frame
          /\ power' = power
          /\ cs' = cs
          /\ Gate' = Gate
          /\ flash' = flash
       /\ (pc = "main" /\ ncmd > 0 /\ cmd \notin Recognized) =>
          /\ out' = <<63, 62>>
          /\ pc' = "main_read"
          /\ UNCHANGED <<consumed, rx, stray, lines, chip>>]_vars

\* 'z' read while the gate is Enabled: '?' written, the gate still Enabled
C11_Witness ==
    /\ pc = "main"
    /\ cmd = 122
    /\ out = <<63>>
    /\ ncmd >= 2
    /\ Gate = "Enabled"

\* C12: whatever command was read, and whatever its outcome, the program comes
\* back to the place in main's loop where it reads the next command byte.
C12_DispatcherResumes == (pc # "main_read") ~> (pc = "main_read")

\* n times '.'
Dots(n) == [i \in 1..n |-> 46]

\* C13 as stated: after the status read at entry of 'u' showed WEL, the answer is
\* one '.' per chunk programmed, then "done!" CRLF; when it showed WEL clear the
\* answer is "wp!" CRLF and the status read is the only frame of the command.
C13_UploadResponseStated ==
    cmd = 117 =>
       /\ pc = "u_loop" =>
             /\ out = Dots(offset \div 128)
             /\ offset = 0 => HasBit(st, SPI_WEL)
       /\ pc = "main" =>
             \/ OpsSent = {5} /\ ~HasBit(st, SPI_WEL) /\ out = WP_MSG
             \/ {6, 2} \subseteq OpsSent /\ out = Dots(32) \o DONE_MSG

\* C13, amended: after the status read at entry of 'u' showed WEL, the answer is
\* 'G', then one '.' per chunk programmed, then "done!" CRLF; when it showed WEL
\* clear the answer is "wp!" CRLF and the status read is the only frame of the
\* command (no write-enable frame, no page-program frame).
C13_UploadResponse ==
    cmd = 117 =>
       /\ pc = "u_loop" =>
             /\ out = <<71>> \o Dots(offset \div 128)
             /\ offset = 0 => HasBit(st, SPI_WEL)
       /\ pc = "main" =>
             \/ OpsSent = {5} /\ ~HasBit(st, SPI_WEL) /\ out = WP_MSG
             \/ {6, 2} \subseteq OpsSent /\ out = <<71>> \o Dots(32) \o DONE_MSG

\* an upload to the enabled chip has returned: 'G', 32 dots, "done!", the
\* contents of the chip changed
C13_Witness ==
    /\ pc = "main"
    /\ cmd = 117
    /\ power = 1
    /\ flash # flash0
    /\ out = <<71>> \o Dots(32) \o DONE_MSG

\* the two upper-case hex digits that write the byte b
HexOf(b) == <<UpperDigits[(b \div 16) + 1], UpperDigits[(b % 16) + 1]>>

\* C14: the answer of 'w' is the status byte read before the write-enable frame
\* as two hex digits, a space, the status byte read after the frame as two hex
\* digits, '!' if and only if that second byte has WEL clear, then CRLF, for
\* any two bytes the status reads return: r1 is the byte of the one status read
\* made before the 0x06 frame and is kept, st at the report is the byte of the
\* status read made after the frame.
C14_WriteEnableResponse ==
    /\ [](cmd = 119 =>
            /\ pc = "w_send" => (r1 = st /\ OpsSent = {5} /\ lastop = 0)
            /\ pc = "w_report" => (OpsSent = {5, 6} /\ lastop = 6)
            /\ pc = "main" =>
                  /\ (\E i \in 1..Len(out) : out[i] = 33) <=> ~HasBit(st, SPI_WEL)
                  /\ SubSeq(out, 1, 2) = HexOf(r1)
                  /\ SubSeq(out, 4, 5) = HexOf(st)
                  /\ out = HexOf(r1) \o <<32>> \o HexOf(st)
                        \o (IF (st \div 2) % 2 = 1 THEN <<>> ELSE <<33>>) \o <<13, 10>>)
    /\ [][(cmd = 119 /\ pc \notin {"w_cs", "main_read"}) => r1' = r1]_vars

\* 'w' on a device whose status reads 0x1C before and after the frame: WEL is
\* still clear and the answer is "1C 1C!" CRLF
C14_Witness ==
    /\ pc = "main"
    /\ cmd = 119
    /\ r1 = 28
    /\ st = 28
    /\ out = <<49, 67, 32, 49, 67, 33, 13, 10>>

\* C15: from the release of chip select after an erase or program frame until
\* the operation completes, the only frames opened are status reads (0x05) and
\* nothing is written to the serial port; while the last status read of the
\* poll shows WIP the program writes nothing and reads the status again; when
\* the command returns, and when 'u' goes on to its next chunk, WIP is 0.
C15_OnlyStatusWhileBusy ==
    /\ [](/\ wip = 1 => (frame = <<>> \/ frame[1] = 5)
          /\ pc \in {"main", "main_read", "u_loop"} => wip = 0)
    /\ [][/\ wip = 1 => out' = out
          /\ (pc \in {"e_wait", "u_wait"} /\ HasBit(st, SPI_WIP)) =>
                (out' = out /\ pc' \in {pc, "status"})]_vars

\* the poll of 'e' has read WIP = 1 from the chip, which is still erasing
C15_Witness ==
    /\ pc = "e_wait"
    /\ power = 1
    /\ wip = 1
    /\ HasBit(st, SPI_WIP)
    /\ lastop = 32

\* the number the leading hex digits of s write, modulo 2^24
Addr24(s) ==
    DigitFromRight(s, RunLen(s), 5) * 1048576 + DigitFromRight(s, RunLen(s), 4) * 65536
      + DigitFromRight(s, RunLen(s), 3) * 4096 + DigitFromRight(s, RunLen(s), 2) * 256
      + DigitFromRight(s, RunLen(s), 1) * 16 + DigitFromRight(s, RunLen(s), 0)

\* the 24-bit address a as three bytes, most significant first
MsbFirst(a) == <<a \div 65536, (a \div 256) % 256, a % 256>>

\* C16: an upload that passed the check at entry reads 128 bytes per chunk,
\* 4096 in all when it returns; the page-program frame of the chunk at offset
\* 128*k is 0x02, the address A + 128*k, and the k-th 128 bytes of the payload;
\* the frame sent last before it, status reads apart, is a write-enable frame
\* (0x06) of its own; a chunk after the first is read only after the poll of
\* the chunk before has read a status with WIP clear.
C16_UploadChunks ==
    /\ [](cmd = 117 =>
            /\ pc = "u_loop" =>
                  /\ offset % 128 = 0 /\ offset <= 4096
                  /\ consumed = 1 + Len(rx0) + offset
            /\ (pc = "main" /\ out # WP_MSG) =>
                  consumed = 1 + Len(rx0) + 4096
            /\ FrameOpen(2) =>
                  /\ offset \in {128 * k : k \in 0..31}
                  /\ frame = <<2>> \o MsbFirst((Addr24(rx0) + offset) % 16777216)
                                \o [i \in 1..128 |-> Payload(pay, offset + i - 1)])
    /\ [][cmd = 117 =>
            /\ (frame = <<>> /\ frame' # <<>> /\ frame'[1] = 2) => lastop = 6
            /\ (consumed' > consumed /\ offset > 0) =>
                  (lastop = 2 /\ ~HasBit(st, SPI_WIP))]_vars

\* the last chunk of an upload at 0x1F0 is being programmed on the enabled chip
C16_Witness ==
    /\ cmd = 117
    /\ FrameOpen(2)
    /\ offset = 3968
    /\ rx0 = <<49, 70, 48, 44>>
    /\ FrameAddr(frame) = 4464
    /\ Gate = "Enabled"

\* C17: the address of a read, erase or program frame is three bytes, most
\* significant first, the low 24 bits of the argument parsed (for 'u', of the
\* argument plus the chunk's offset); the frame of 'r' is 0x03, these three
\* bytes and 16 bytes 0, all within one assertion of chip select, and 'r' sends
\* no other frame.
C17_Address24 ==
    /\ (cmd = 114 /\ FrameOpen(3)) =>
          /\ frame = <<3>> \o MsbFirst(Addr24(rx0)) \o [i \in 1..16 |-> 0]
          /\ Len(frame) = 20
    /\ cmd = 114 => (OpsSent \subseteq {3} /\ ~cserr)
    /\ (cmd = 114 /\ pc = "main") => (OpsSent = {3} /\ Len(data) = 16)
    /\ (cmd = 101 /\ FrameOpen(32)) => frame = <<32>> \o MsbFirst(Addr24(rx0))
    /\ (cmd = 117 /\ FrameOpen(2)) =>
          SubSeq(frame, 1, 4) = <<2>> \o MsbFirst((Addr24(rx0) + offset) % 16777216)

\* 'r' with the argument "1000080 ": the read frame carries 00 00 80
C17_Witness ==
    /\ cmd = 114
    /\ FrameOpen(3)
    /\ rx0 = <<49, 48, 48, 48, 48, 56, 48, 32>>
    /\ addr = u32(256, 128)
    /\ SubSeq(frame, 1, 4) = <<3, 0, 0, 128>>

\* C18: whenever chip select is asserted, for the frame of any command and for
\* the status reads of 'e' and 'u', the chip's power enable is on.
C18_PoweredWhenSelected == cs = 1 => power = 1

\* C19: no byte of an upload's payload is read at the command position: when a
\* command byte is read, no payload byte that the host has sent is still unread,
\* also after an upload refused with "wp!".
C19_PayloadNotDispatched == [][ncmd' = ncmd + 1 => stray = 0]_vars

\* C20: 'i' and 'r' leave the write gate as it is: when the gate was Enabled as
\* a 'w' returned and only 'i' and 'r' were read since, the gate is Enabled
\* when such a command returns, and an 'e' read next erases the sector and does
\* not answer "wp!".
C20_ReadOnlyKeepsGate ==
    /\ (wgate = 1 /\ cmd \in {105, 114} /\ pc = "main") => Gate = "Enabled"
    /\ (wgate = 1 /\ cmd = 101 /\ pc = "main") =>
          /\ out # WP_MSG
          /\ SectorOf(Addr24(rx0)) \in flash.er

\* C21: when the bulk dump is back in main after it has switched the chip on
\* (it has sent at least one read frame), power is off and the transfer session
\* is closed, whether the dump ran to the top address or xmodem_send failed.
C21_DumpExitsClean ==
    (cmd = XMODEM_NAK /\ pc = "main" /\ OpsSent # {}) =>
        (power = 0 /\ xm = "closed")
====
